---- MODULE Spec2Model ----
(***************************************************************************)
(* Document assembly and image resolution of the JSON -> PDF generator.    *)
(*                                                                         *)
(* Two revisions of the same pipeline live in the repository and both are  *)
(* modelled; the variable impl says which one runs:                        *)
(*   "pdf_gen" : src/pdf_gen/pdf_generator.py + src/pdf_gen/image_handler.py*)
(*               (image resolver with the on-disk cache)                   *)
(*   "legacy"  : src/generate_pdf_from_json.py (resolver without a cache)  *)
(*                                                                         *)
(* A record of the input list is referred to by its position in the list   *)
(* (Python keeps the same dict objects through filter, sort and group).    *)
(* The layout engine (reportlab) and the image codec (PIL) are external:   *)
(* a block is what the code hands to the engine, not what the engine draws.*)
(***************************************************************************)
EXTENDS Integers, Sequences, FiniteSets, TLC

\* Longest input list explored.
MaxLen == 3

\* Python's None: the value of dict.get for a missing key, and JSON null.
None == "None"

\* A fifth team in the list of valid teams.
VALID_TEAMS_WithTraveler ==
    <<"townsfolk", "outsider", "minion", "demon", "traveler">>

\* PDFGenerator.VALID_TEAMS / PDFConfig.VALID_TEAMS
VALID_TEAMS == <<"townsfolk", "outsider", "minion", "demon">>

Range(s) == {s[i] : i \in 1..Len(s)}

(***************************************************************************)
(* Strings that the code takes apart are sequences of characters.          *)
(***************************************************************************)
MetaId == <<"_", "m", "e", "t", "a">>       \* "_meta"
IdA    == <<"k", "_", "K", "_", "i">>       \* "k_K_i"  (<lang>_<region>_<slug>)
IdB    == <<"i">>                            \* "i"      (a single segment)

U1 == "http://u1"
U2 == "http://u2"
EmptyUrl == ""

\* str.split(sep): the pieces between separators, always at least one piece.
RECURSIVE Split(_, _)
Split(s, sep) ==
    IF \A i \in 1..Len(s) : s[i] # sep
    THEN <<s>>
    ELSE LET i == CHOOSE k \in 1..Len(s) :
                      s[k] = sep /\ \A j \in 1..(k - 1) : s[j] # sep
         IN  <<SubSeq(s, 1, i - 1)>> \o Split(SubSeq(s, i + 1, Len(s)), sep)

\* sep.join(parts)
RECURSIVE Join(_, _)
Join(parts, sep) ==
    IF parts = <<>> THEN <<>>
    ELSE IF Len(parts) = 1 THEN parts[1]
    ELSE parts[1] \o <<sep>> \o Join(Tail(parts), sep)

\* f"icons/Icon_{name}.png" under the assets directory
IconPath(name) == <<"icons/Icon_">> \o name \o <<".png">>

\* Candidates whose second entry drops one leading segment instead of two.
path_patterns_DropOne(icon_id) ==
    LET parts == Split(icon_id, "_")
    IN  << IconPath(icon_id),
           IconPath(Join(SubSeq(parts, 2, Len(parts)), "_")),
           IconPath(parts[Len(parts)]) >>

\* path_patterns / local_paths: the three candidate files, in order.
path_patterns(icon_id) ==
    LET parts == Split(icon_id, "_")
    IN  << IconPath(icon_id),
           IconPath(Join(SubSeq(parts, 3, Len(parts)), "_")),
           IconPath(parts[Len(parts)]) >>

(***************************************************************************)
(* Input records.  keys is the set of keys the JSON object has; a field    *)
(* whose key is missing is never read by the model.                        *)
(***************************************************************************)
Null == [null |-> TRUE, keys |-> {}, id |-> <<>>, team |-> None, image |-> None]

Item(keys, id, team, image) ==
    [null |-> FALSE, keys |-> keys, id |-> id, team |-> team, image |-> image]

Items ==
    { Null,
      Item({"id"}, MetaId, None, None),
      Item({"id", "team", "image"}, IdA, "townsfolk", U1),
      Item({"id", "team", "image"}, IdB, "outsider", U1),
      Item({"id", "team"}, IdA, "minion", None),
      Item({"id", "team", "image"}, IdB, "minion", EmptyUrl),
      Item({"id", "team", "image"}, IdB, "demon", U2),
      Item({"team", "image"}, <<>>, "demon", U1),
      Item({"id", "team", "image"}, IdA, "traveler", U1),
      Item({"id"}, IdB, None, None) }

Inputs == UNION { [1..n -> Items] : n \in 0..MaxLen }

\* Which icon files exist under assets/.
FileSets == { {}, {IconPath(IdA)}, {IconPath(IdB)} }

\* What the remote source serves for a URL, and what the codec does with it.
Body(url) == IF url = U1 THEN [fmt |-> "png", px |-> "p1"]
                         ELSE [fmt |-> "jpeg", px |-> "p2"]

\* Image.open(BytesIO(content)) / Image.open(path)
ImageOpen(bytes) == [px |-> bytes.px]

\* A save that stores a reduced picture.
ImageSaveLossy(image) == [fmt |-> "png", px |-> "reduced"]

\* image.save(cache_path): the file name ends in .png, so PIL encodes a PNG.
ImageSave(image) == [fmt |-> "png", px |-> image.px]

\* hashlib.md5(url.encode()).hexdigest(): one key per URL (collisions are not
\* modelled), and the cache file of that key.
Md5(url) == <<"md5", url>>

_get_cache_path(url) == <<".cache/">> \o Md5(url) \o <<".png">>

EmptyCache == [p \in {} |-> None]

InitialCaches ==
    { EmptyCache,
      [p \in {_get_cache_path(U1)} |-> ImageSave(ImageOpen(Body(U1)))] }

\* How one HTTP GET can end.
Outcomes == {"ok", "timeout", "transport", "http_error", "bad_body"}

VARIABLES
    impl,          \* which revision runs
    data,          \* the input list
    files,         \* icon files under assets/
    cache,         \* cache file path -> bytes
    pc,            \* "meta", "teams", "section", "table", "done", "failed"
    elements,      \* the block sequence built so far
    grouped_data,  \* team -> positions of its records
    teamIdx,       \* position in VALID_TEAMS of the section being built
    table_data,    \* rows of the table being built
    log,           \* one entry per image resolution
    response,      \* how the HTTP GET of the latest resolution ended
    error,         \* the exception that ended the run
    fontFiles,     \* font files on disk
    registered,    \* font names registered so far, in order
    output,        \* the output PDF: "absent" or "written"
    seg_text,      \* argument of the text segmenter
    seg_runs,      \* what the text segmenter returned
    lookup_id,     \* argument of the local icon lookup
    lookup_path    \* the icon file the lookup opened (<<>>: none)

vars == << impl, data, files, cache, pc, elements, grouped_data, teamIdx,
           table_data, log, response, error, fontFiles, registered, output,
           seg_text, seg_runs, lookup_id, lookup_path >>

\* what the assembly steps never touch
startupVars == << fontFiles, registered >>
unitVars == << seg_text, seg_runs, lookup_id, lookup_path >>

\* font_mappings of register_fonts, in the order the loop visits them
font_mappings ==
    << [name |-> "NanumGothic",      path |-> "assets/fonts/NanumGothic.ttf"],
       [name |-> "NanumGothic-Bold", path |-> "assets/fonts/NanumGothic-Bold.ttf"],
       [name |-> "Dumbledor",        path |-> "assets/fonts/dum1.ttf"],
       [name |-> "ChungjuKimSaeng",  path |-> "assets/fonts/ChungjuKimSaeng.ttf"] >>

FontNames == [i \in 1..Len(font_mappings) |-> font_mappings[i].name]

AllFontFiles == {font_mappings[i].path : i \in 1..Len(font_mappings)}

\* Which font files exist: all of them, or all but one.
FontFileSets == {AllFontFiles} \cup {AllFontFiles \ {p} : p \in AllFontFiles}

NoError == [exc |-> "none", idx |-> 0, step |-> "none"]

Init ==
    /\ impl \in {"pdf_gen", "legacy"}
    /\ data \in Inputs
    /\ files \in FileSets
    /\ cache \in (IF impl = "pdf_gen" THEN InitialCaches ELSE {EmptyCache})
    /\ pc = "meta"
    /\ elements = <<>>
    /\ grouped_data = [t \in {} |-> <<>>]
    /\ teamIdx = 0
    /\ table_data = <<>>
    /\ log = <<>>
    /\ response = "none"
    /\ error = NoError
    /\ fontFiles = AllFontFiles
    /\ registered = FontNames
    /\ output = "absent"
    /\ seg_text = <<>>
    /\ seg_runs = <<>>
    /\ lookup_id = <<>>
    /\ lookup_path = <<>>

(***************************************************************************)
(* Dictionary access.                                                      *)
(***************************************************************************)
\* item.get(k): the value, or None when the key is missing.  Calling it on
\* None raises AttributeError; the callers below test item.null first.
Get(item, k) == IF k \in item.keys THEN item[k] ELSE None

\* item.get("id") == "_meta"
IsMeta(item) == "id" \in item.keys /\ item.id = MetaId

(***************************************************************************)
(* _process_meta_info: next((item for item in data                         *)
(*                           if item.get("id") == "_meta"), None)          *)
(* The generator calls item.get on every item up to the first match; a     *)
(* None item met on the way raises AttributeError.                         *)
(***************************************************************************)
RECURSIVE ScanMetaFrom(_, _)
ScanMetaFrom(d, i) ==
    IF i > Len(d) THEN [exc |-> "none", idx |-> 0]
    ELSE IF d[i].null THEN [exc |-> "AttributeError", idx |-> i]
    ELSE IF IsMeta(d[i]) THEN [exc |-> "none", idx |-> i]
    ELSE ScanMetaFrom(d, i + 1)

\* A lookup that expects the "_meta" record at the head of the list.
FindMetaFirstOnly(d) ==
    IF d = <<>> THEN [exc |-> "none", idx |-> 0]
    ELSE IF d[1].null THEN [exc |-> "AttributeError", idx |-> 1]
    ELSE IF IsMeta(d[1]) THEN [exc |-> "none", idx |-> 1]
    ELSE [exc |-> "none", idx |-> 0]

FindMeta(d) == ScanMetaFrom(d, 1)

\* _create_meta_table: one block, whatever the title and the author are.
MetaBlock(i) == [kind |-> "meta", idx |-> i]

(***************************************************************************)
(* _process_team_data / _filter_and_sort_data / _group_data_by_team        *)
(***************************************************************************)
\* pdf_gen: item is not None and item.get("team") in VALID_TEAMS
\* legacy : item and item.get("team") in VALID_TEAMS   (an empty dict is falsy)
Keeps(im, item) ==
    /\ ~item.null
    /\ (im = "legacy" => item.keys # {})
    /\ Get(item, "team") \in Range(VALID_TEAMS)

filtered_data(im, d) ==
    SelectSeq([i \in 1..Len(d) |-> i], LAMBDA i : Keeps(im, d[i]))

\* VALID_TEAMS.index(team)
TeamIndex(team) == CHOOSE i \in 1..Len(VALID_TEAMS) : VALID_TEAMS[i] = team

\* key=lambda x: VALID_TEAMS.index(x["team"])
SortKey(d, i) == TeamIndex(d[i].team)

\* An insertion that puts x in front of the elements with an equal key.
InsertSortedUnstable(d, s, x) ==
    SelectSeq(s, LAMBDA y : SortKey(d, y) < SortKey(d, x))
        \o <<x>> \o
    SelectSeq(s, LAMBDA y : SortKey(d, y) >= SortKey(d, x))

\* Where sorted() puts x among the already sorted s: behind every element
\* whose key is not larger (sorted() is stable).
InsertSorted(d, s, x) ==
    SelectSeq(s, LAMBDA y : SortKey(d, y) <= SortKey(d, x))
        \o <<x>> \o
    SelectSeq(s, LAMBDA y : SortKey(d, y) > SortKey(d, x))

RECURSIVE sorted_data(_, _)
sorted_data(d, s) ==
    IF s = <<>> THEN <<>>
    ELSE InsertSorted(d, sorted_data(d, SubSeq(s, 1, Len(s) - 1)), s[Len(s)])

\* A grouping that does not test the team: every team gets every record.
GroupByTeamUnfiltered(d, s) == [team \in Range(VALID_TEAMS) |-> s]

\* {team: [item for item in sorted_data if item["team"] == team]
\*  for team in VALID_TEAMS}: every team is a key, also one without members.
GroupByTeam(d, s) ==
    [team \in Range(VALID_TEAMS) |->
        SelectSeq(s, LAMBDA i : d[i].team = team)]

\* A loop that walks the teams from the last to the first.
TeamAtReversed(i) == VALID_TEAMS[Len(VALID_TEAMS) + 1 - i]

\* for team in VALID_TEAMS: the team of the i-th iteration
TeamAt(i) == VALID_TEAMS[i]

(***************************************************************************)
(* Image resolution.  A resolution is a record:                            *)
(*   result  "image" | "absent" | "raise"                                  *)
(*   src     where the answer came from                                    *)
(*   px      the picture (when result = "image")                           *)
(*   cache   the cache afterwards                                          *)
(*   net     an HTTP GET was issued; outcome: how it ended                 *)
(*   touched the cache directory was looked at; wrote: it was written      *)
(***************************************************************************)
Resolution(result, src, px, c, net, outcome, touched, wrote, exc) ==
    [result |-> result, src |-> src, px |-> px, cache |-> c, net |-> net,
     outcome |-> outcome, touched |-> touched, wrote |-> wrote, exc |-> exc]

\* if not url
Falsy(url) == url = None \/ url = EmptyUrl

\* A lookup that never finds the cache file.
CacheNeverHit(c, url) == FALSE

\* if cache_path.exists()
CacheHit(c, url) == _get_cache_path(url) \in DOMAIN c

\* A download that does not look in the cache first and saves over the entry.
DownloadOverwrites(url, c, o) ==
    IF Falsy(url)
    THEN Resolution("absent", "nourl", "none", c, FALSE, "none", FALSE, FALSE, "none")
    ELSE LET path == _get_cache_path(url)
         IN  IF o = "ok"
             THEN Resolution("image", "net", ImageOpen(Body(url)).px,
                             [p \in DOMAIN c \cup {path} |->
                                 IF p = path THEN Body(url) ELSE c[p]],
                             TRUE, o, TRUE, TRUE, "none")
             ELSE Resolution("absent", "net", "none",
                             [p \in DOMAIN c \ {path} |-> c[p]],
                             TRUE, o, TRUE, FALSE, "none")

\* pdf_gen/image_handler.py: _download_image
DownloadCached(url, c, o) ==
    IF Falsy(url)
    THEN Resolution("absent", "nourl", "none", c, FALSE, "none", FALSE, FALSE, "none")
    ELSE IF CacheHit(c, url)
    THEN Resolution("image", "cache", ImageOpen(c[_get_cache_path(url)]).px, c,
                    FALSE, "none", TRUE, FALSE, "none")
    ELSE IF o = "ok"
    THEN LET image == ImageOpen(Body(url))
             path  == _get_cache_path(url)
         IN  Resolution("image", "net", image.px,
                        [p \in DOMAIN c \cup {path} |->
                            IF p = path THEN ImageSave(image) ELSE c[p]],
                        TRUE, o, TRUE, TRUE, "none")
    \* except requests.RequestException / except Exception: return None
    ELSE Resolution("absent", "net", "none", c, TRUE, o, TRUE, FALSE, "none")

\* generate_pdf_from_json.py: _download_image (no cache; only
\* requests.RequestException is caught, so an undecodable body raises)
DownloadPlain(url, c, o) ==
    IF Falsy(url)
    THEN Resolution("absent", "nourl", "none", c, FALSE, "none", FALSE, FALSE, "none")
    ELSE IF o = "ok"
    THEN Resolution("image", "net", ImageOpen(Body(url)).px, c,
                    TRUE, o, FALSE, FALSE, "none")
    ELSE IF o = "bad_body"
    THEN Resolution("raise", "net", "none", c, TRUE, o, FALSE, FALSE,
                    "UnidentifiedImageError")
    ELSE Resolution("absent", "net", "none", c, TRUE, o, FALSE, FALSE, "none")

_download_image(im, url, c, o) ==
    IF im = "pdf_gen" THEN DownloadCached(url, c, o) ELSE DownloadPlain(url, c, o)

\* A lookup that leaves out the first candidate, the exact id.
LocalMatchSkipsExact(icon_id, fs) ==
    LET pats == path_patterns(icon_id)
    IN  IF \E k \in 2..Len(pats) : pats[k] \in fs
        THEN CHOOSE k \in 2..Len(pats) :
                 pats[k] \in fs /\ \A j \in 2..(k - 1) : pats[j] \notin fs
        ELSE 0

\* for pattern in path_patterns: if full_path.exists(): the first that exists
\* (0 when none does)
LocalMatch(icon_id, fs) ==
    LET pats == path_patterns(icon_id)
    IN  IF \E k \in 1..Len(pats) : pats[k] \in fs
        THEN CHOOSE k \in 1..Len(pats) :
                 pats[k] \in fs /\ \A j \in 1..(k - 1) : pats[j] \notin fs
        ELSE 0

\* get_image / load_image
get_image(im, item, fs, c, o) ==
    IF "id" \notin item.keys
    THEN \* icon_id = item["id"]
         Resolution("raise", "noid", "none", c, FALSE, "none", FALSE, FALSE, "KeyError")
    ELSE IF LocalMatch(item.id, fs) # 0
    THEN Resolution("image", "local", "icon", c, FALSE, "none", FALSE, FALSE, "none")
    ELSE _download_image(im, Get(item, "image"), c, o)

(***************************************************************************)
(* The run.                                                                *)
(***************************************************************************)
\* _process_meta_info
ProcessMetaInfo ==
    /\ pc = "meta"
    /\ LET m == FindMeta(data)
       IN  IF m.exc # "none"
           THEN /\ pc' = "failed"
                /\ error' = [exc |-> m.exc, idx |-> m.idx, step |-> "meta"]
                /\ elements' = elements
           ELSE /\ pc' = "teams"
                /\ error' = error
                /\ elements' = IF m.idx = 0 THEN <<>> ELSE <<MetaBlock(m.idx)>>
    /\ UNCHANGED << impl, data, files, cache, grouped_data, teamIdx,
                    table_data, log, response >>
    /\ UNCHANGED << startupVars, output, unitVars >>

\* _process_team_data up to its loop: filter, sort, group
ProcessTeamData ==
    /\ pc = "teams"
    /\ grouped_data' = GroupByTeam(data, sorted_data(data, filtered_data(impl, data)))
    /\ teamIdx' = 1
    /\ pc' = "section"
    /\ UNCHANGED << impl, data, files, cache, elements, table_data, log,
                    response, error >>
    /\ UNCHANGED << startupVars, output, unitVars >>

\* Table(table_data, ...): the block that ends _create_team_table
TableBlock(rows) == [kind |-> "table", rows |-> rows]

\* one iteration of "for team in VALID_TEAMS: if team in grouped_data":
\* _create_team_section emits the header and calls _create_team_table, whose
\* loop over a team without members ends at once with an empty table
CreateTeamSection ==
    /\ pc = "section"
    /\ teamIdx <= Len(VALID_TEAMS)
    /\ table_data' = <<>>
    /\ IF TeamAt(teamIdx) \in DOMAIN grouped_data
       THEN LET header == [kind |-> "header", team |-> TeamAt(teamIdx)]
            IN  IF grouped_data[TeamAt(teamIdx)] = <<>>
                THEN /\ elements' = elements \o <<header, TableBlock(<<>>)>>
                     /\ teamIdx' = teamIdx + 1
                     /\ pc' = pc
                ELSE /\ elements' = Append(elements, header)
                     /\ teamIdx' = teamIdx
                     /\ pc' = "table"
       ELSE /\ teamIdx' = teamIdx + 1
            /\ UNCHANGED << elements, pc >>
    /\ UNCHANGED << impl, data, files, cache, grouped_data, log, response, error >>
    /\ UNCHANGED << startupVars, output, unitVars >>

\* one iteration of "for item in team_data" in _create_team_table: resolve the
\* image and build the row; behind the last row the table is emitted and the
\* loop over the teams moves on
TableRow ==
    /\ pc = "table"
    /\ Len(table_data) < Len(grouped_data[TeamAt(teamIdx)])
    /\ \E r \in { get_image(impl,
                           data[grouped_data[TeamAt(teamIdx)][Len(table_data) + 1]],
                           files, cache, o) : o \in Outcomes } :
         LET team_data == grouped_data[TeamAt(teamIdx)]
             i == team_data[Len(table_data) + 1]
             \* if not img: Paragraph("No image")
             row == [idx |-> i,
                     image |-> IF r.result = "image" THEN "image" ELSE "No image"]
         IN  /\ log' = Append(log, [idx |-> i, url |-> Get(data[i], "image"),
                                    src |-> r.src, result |-> r.result,
                                    px |-> r.px, net |-> r.net,
                                    touched |-> r.touched, wrote |-> r.wrote,
                                    before |-> cache])
             /\ response' = r.outcome
             /\ cache' = r.cache
             /\ IF r.result = "raise"
                THEN /\ pc' = "failed"
                     /\ error' = [exc |-> r.exc, idx |-> i, step |-> "image"]
                     /\ UNCHANGED << table_data, elements, teamIdx >>
                ELSE /\ error' = error
                     /\ IF Len(table_data) + 1 = Len(team_data)
                        THEN /\ elements' = Append(elements,
                                    TableBlock(Append(table_data, row)))
                             /\ table_data' = <<>>
                             /\ teamIdx' = teamIdx + 1
                             /\ pc' = "section"
                        ELSE /\ table_data' = Append(table_data, row)
                             /\ UNCHANGED << elements, teamIdx, pc >>
    /\ UNCHANGED << impl, data, files, grouped_data >>
    /\ UNCHANGED << startupVars, output, unitVars >>

\* doc.build(elements): the assembled sequence is handed to the layout engine,
\* which writes the output file
DocBuild ==
    /\ pc = "section"
    /\ teamIdx > Len(VALID_TEAMS)
    /\ pc' = "done"
    /\ output' = "written"
    /\ UNCHANGED << impl, data, files, cache, elements, grouped_data, teamIdx,
                    table_data, log, response, error >>
    /\ UNCHANGED << startupVars, unitVars >>

Next ==
    \/ ProcessMetaInfo
    \/ ProcessTeamData
    \/ CreateTeamSection
    \/ TableRow
    \/ DocBuild

Spec == Init /\ [][Next]_vars

(***************************************************************************)
(* The whole run from main(): font registration and input loading come     *)
(* before the assembly.  SimpleDocTemplate(output_filename, ...) is built  *)
(* between loading and assembly; it keeps the file name and opens no file. *)
(***************************************************************************)
\* A registration that does not look whether the font file exists.
register_fonts_unchecked(fs) == [exc |-> "none", registered |-> FontNames]

\* for font_name, font_path in font_mappings.items():
\*     if not os.path.exists(font_path): raise FileNotFoundError
\*     pdfmetrics.registerFont(...)
RECURSIVE RegisterFrom(_, _)
RegisterFrom(fs, i) ==
    IF i > Len(font_mappings) THEN [exc |-> "none", registered |-> <<>>]
    ELSE IF font_mappings[i].path \notin fs
    THEN [exc |-> "FileNotFoundError", registered |-> <<>>]
    ELSE LET rest == RegisterFrom(fs, i + 1)
         IN  [exc |-> rest.exc,
              registered |-> <<font_mappings[i].name>> \o rest.registered]

register_fonts(fs) == RegisterFrom(fs, 1)

\* What json.load can return: a list, or a single value.
JsonDocs ==
    {[isList |-> TRUE, value |-> d] : d \in Inputs}
        \cup {[isList |-> FALSE, value |-> it] : it \in Items}

\* How open() + json.load() can end.
LoadResults ==
    {[exc |-> "FileNotFoundError", doc |-> [isList |-> TRUE, value |-> <<>>]],
     [exc |-> "JSONDecodeError", doc |-> [isList |-> TRUE, value |-> <<>>]]}
        \cup {[exc |-> "none", doc |-> j] : j \in JsonDocs}

\* font_manager.register_fonts()
RegisterFonts ==
    /\ pc = "fonts"
    /\ LET r == register_fonts(fontFiles)
       IN  /\ registered' = r.registered
           /\ IF r.exc # "none"
              THEN /\ pc' = "failed"
                   /\ error' = [exc |-> r.exc, idx |-> 0, step |-> "fonts"]
              ELSE /\ pc' = "load"
                   /\ error' = error
    /\ UNCHANGED << impl, data, files, cache, elements, grouped_data, teamIdx,
                    table_data, log, response, fontFiles, output, unitVars >>

\* with open(input) as f: data = json.load(f)
\* if not isinstance(data, list): data = [data]
LoadInput ==
    /\ pc = "load"
    /\ \E r \in LoadResults :
          IF r.exc # "none"
          THEN /\ pc' = "failed"
               /\ error' = [exc |-> r.exc, idx |-> 0, step |-> "load"]
               /\ data' = data
          ELSE /\ pc' = "meta"
               /\ error' = error
               /\ data' = IF r.doc.isList THEN r.doc.value ELSE <<r.doc.value>>
    /\ UNCHANGED << impl, files, cache, elements, grouped_data, teamIdx,
                    table_data, log, response, startupVars, output, unitVars >>

InitMain ==
    /\ impl \in {"pdf_gen", "legacy"}
    /\ data = <<>>
    /\ files \in FileSets
    /\ cache \in (IF impl = "pdf_gen" THEN InitialCaches ELSE {EmptyCache})
    /\ pc = "fonts"
    /\ elements = <<>>
    /\ grouped_data = [t \in {} |-> <<>>]
    /\ teamIdx = 0
    /\ table_data = <<>>
    /\ log = <<>>
    /\ response = "none"
    /\ error = NoError
    /\ fontFiles \in FontFileSets
    /\ registered = <<>>
    /\ output = "absent"
    /\ seg_text = <<>>
    /\ seg_runs = <<>>
    /\ lookup_id = <<>>
    /\ lookup_path = <<>>

NextMain ==
    \/ RegisterFonts
    \/ LoadInput
    \/ ProcessMetaInfo
    \/ ProcessTeamData
    \/ CreateTeamSection
    \/ TableRow
    \/ DocBuild

SpecMain == InitMain /\ [][NextMain]_vars

(***************************************************************************)
(* Vocabulary of the properties.                                           *)
(***************************************************************************)
\* The fixed team order the specification names.
SpecTeams == <<"townsfolk", "outsider", "minion", "demon">>

Positions == 1..Len(data)

\* the record at position i has team t
HasTeam(i, t) == ~data[i].null /\ "team" \in data[i].keys /\ data[i].team = t

Members(t) == {i \in Positions : HasTeam(i, t)}

ValidTeamRecord(i) == \E t \in Range(SpecTeams) : HasTeam(i, t)

HasMetaRecord ==
    \E i \in Positions : ~data[i].null /\ "id" \in data[i].keys /\ data[i].id = MetaId

Blocks(kind) == {k \in 1..Len(elements) : elements[k].kind = kind}

HeaderPos(t) == {k \in Blocks("header") : elements[k].team = t}

\* a team's table is the table right behind the team's header
TablePos(t) == {k \in Blocks("table") : k > 1 /\ (k - 1) \in HeaderPos(t)}

SectionPos(t) == HeaderPos(t) \cup TablePos(t)

RowIdxs(rows) == {rows[j].idx : j \in 1..Len(rows)}

\* every row built so far: of the finished tables and of the one in progress
AllRowIdxs ==
    UNION {RowIdxs(elements[k].rows) : k \in Blocks("table")} \cup RowIdxs(table_data)

\* the tables built so far, the one in progress included
AllTables == {elements[k].rows : k \in Blocks("table")} \cup {table_data}

(***************************************************************************)
(* C1: a team has a header block and a table block in the assembled        *)
(* sequence if and only if some input record has that team, and a team     *)
(* without records is not a key of the grouping.                           *)
(***************************************************************************)
C1_SectionIffMembers ==
    pc = "done" =>
        \A t \in Range(SpecTeams) :
            /\ t \in DOMAIN grouped_data <=> Members(t) # {}
            /\ (HeaderPos(t) # {} /\ TablePos(t) # {}) <=> Members(t) # {}

(***************************************************************************)
(* C2: null records, wherever they stand in the input, never end the run   *)
(* with an error and contribute no meta block and no table row.            *)
(***************************************************************************)
C2_NullRecordsTolerated ==
    /\ pc = "failed" => ~data[error.idx].null
    /\ \A k \in Blocks("meta") : ~data[elements[k].idx].null
    /\ \A i \in AllRowIdxs : ~data[i].null

(***************************************************************************)
(* C3: when teams A and B both have members and A precedes B in the fixed  *)
(* order, every block of A's section stands before every block of B's      *)
(* section, whatever the order of the records in the input.                *)
(***************************************************************************)
C3_TeamOrder ==
    \A a, b \in 1..Len(SpecTeams) :
        (a < b /\ Members(SpecTeams[a]) # {} /\ Members(SpecTeams[b]) # {}) =>
            \A x \in SectionPos(SpecTeams[a]) :
                \A y \in SectionPos(SpecTeams[b]) : x < y

\* both sections are complete although the input lists B's record first
C3_Witness ==
    /\ pc = "done"
    /\ \E a, b \in 1..Len(SpecTeams) :
          /\ a < b
          /\ \E i \in Members(SpecTeams[a]) :
                \E j \in Members(SpecTeams[b]) : j < i
          /\ Cardinality(SectionPos(SpecTeams[a])) = 2
          /\ Cardinality(SectionPos(SpecTeams[b])) = 2

(***************************************************************************)
(* C4: a record whose team is missing or outside the four teams is never a *)
(* row of a table, and it is never the record at which the run fails.      *)
(***************************************************************************)
C4_InvalidTeamExcluded ==
    /\ \A i \in AllRowIdxs : ValidTeamRecord(i)
    /\ pc = "failed" => (data[error.idx].null \/ ValidTeamRecord(error.idx))

\* a finished run whose input has a "traveler" record, a record without a
\* team, and a record that did become a row
C4_Witness ==
    /\ pc = "done"
    /\ \E i \in Positions : HasTeam(i, "traveler")
    /\ \E i \in Positions : ~data[i].null /\ "team" \notin data[i].keys
    /\ AllRowIdxs # {}

(***************************************************************************)
(* C5: within a table the rows keep the relative order their records have  *)
(* in the input.                                                           *)
(***************************************************************************)
C5_InputOrderWithinTeam ==
    \A rows \in AllTables :
        \A j, k \in 1..Len(rows) : j < k => rows[j].idx < rows[k].idx

\* a finished table with two rows of one team whose records are separated in
\* the input by a record of a team that sorts before them
C5_Witness ==
    /\ pc = "done"
    /\ \E k \in Blocks("table") :
          /\ Len(elements[k].rows) = 2
          /\ \E m \in Positions :
                /\ elements[k].rows[1].idx < m
                /\ m < elements[k].rows[2].idx
                /\ ValidTeamRecord(m)
                /\ SortKey(data, m) < SortKey(data, elements[k].rows[1].idx)

(***************************************************************************)
(* C6.  Two resolutions in sequence of the same non-empty URL, neither     *)
(* answered by a local icon.                                               *)
(***************************************************************************)
SameUrlTwice(k) ==
    /\ k \in 1..(Len(log) - 1)
    /\ log[k].url = log[k + 1].url
    /\ log[k].src \in {"cache", "net"}
    /\ log[k + 1].src \in {"cache", "net"}

NetCalls(k) == (IF log[k].net THEN 1 ELSE 0) + (IF log[k + 1].net THEN 1 ELSE 0)

\* C6 as claimed: the two resolutions issue at most one network call in
\* total, whatever the cache held and however the first fetch ended.
C6_AtMostOneNetworkCall ==
    \A k \in 1..Len(log) : SameUrlTwice(k) => NetCalls(k) <= 1

\* C6 as amended: with the caching resolver, when the first of the two
\* resolutions returns an image (from the cache or from a download that
\* succeeded), the second is answered from the cache: at most one network
\* call in total, none by the second.
C6_WarmCacheNoSecondCall ==
    \A k \in 1..Len(log) :
        (impl = "pdf_gen" /\ SameUrlTwice(k) /\ log[k].result = "image") =>
            /\ ~log[k + 1].net
            /\ log[k + 1].src = "cache"
            /\ NetCalls(k) <= 1

\* the first resolution downloaded the image into an empty cache, the second
\* one found it there
C6_Witness ==
    \E k \in 1..Len(log) :
        /\ impl = "pdf_gen"
        /\ SameUrlTwice(k)
        /\ log[k].net /\ log[k].result = "image"
        /\ DOMAIN log[k].before = {}
        /\ log[k + 1].src = "cache"

(***************************************************************************)
(* C7: when icons/Icon_<id>.png exists, resolving the role issues no       *)
(* network call and neither looks at nor writes the cache directory,       *)
(* with or without an image URL and with or without a cache entry for it.  *)
(***************************************************************************)
ExactIcon(i) == "id" \in data[i].keys /\ IconPath(data[i].id) \in files

C7_LocalIconNoNetwork ==
    /\ \A k \in 1..Len(log) :
          ExactIcon(log[k].idx) =>
              /\ log[k].result = "image"
              /\ ~log[k].net
              /\ ~log[k].touched
              /\ ~log[k].wrote
    /\ (log # <<>> /\ ExactIcon(log[Len(log)].idx)) =>
          /\ cache = log[Len(log)].before
          /\ response = "none"

\* the icon exists, the record has a URL and the cache holds that URL
C7_Witness ==
    /\ log # <<>>
    /\ LET e == log[Len(log)]
       IN  /\ ExactIcon(e.idx)
           /\ ~Falsy(e.url)
           /\ CacheHit(cache, e.url)
           /\ e.src = "local"

(***************************************************************************)
(* C8: when the fetch fails (timeout, transport error, non-2xx status,     *)
(* undecodable body) the resolution returns Absent without raising, the    *)
(* row shows "No image", and the run goes on.                              *)
(***************************************************************************)
C8_FetchFailureDegrades ==
    (log # <<>> /\ response \in Outcomes \ {"ok"}) =>
        LET e == log[Len(log)]
        IN  /\ e.result = "absent"
            /\ pc # "failed"
            /\ \E rows \in AllTables :
                  \E j \in 1..Len(rows) :
                      rows[j].idx = e.idx /\ rows[j].image = "No image"

(***************************************************************************)
(* C9: a record with a valid team and no id gets the placeholder cell; it  *)
(* does not abort the run.                                                 *)
(***************************************************************************)
C9_MissingIdDegrades ==
    /\ pc = "failed" =>
          ~(ValidTeamRecord(error.idx) /\ "id" \notin data[error.idx].keys)
    /\ \A k \in 1..Len(log) :
          "id" \notin data[log[k].idx].keys => log[k].result = "absent"

(***************************************************************************)
(* C10: once the meta step has returned, the block sequence starts with    *)
(* exactly one meta block if the input has a record with id "_meta" and    *)
(* has no meta block otherwise; in the finished sequence every record with *)
(* a valid team is a row of its team's table, behind the meta block.       *)
(***************************************************************************)
C10_MetaBlockFirst ==
    /\ pc \notin {"meta"} /\ error.step # "meta" =>
          IF HasMetaRecord
          THEN Blocks("meta") = {1}
          ELSE Blocks("meta") = {}
    /\ pc = "done" =>
          \A t \in Range(SpecTeams) :
              \A i \in Members(t) :
                  \E k \in TablePos(t) :
                      /\ i \in RowIdxs(elements[k].rows)
                      /\ \A m \in Blocks("meta") : m < k - 1

\* a finished sequence with the meta block in front of a team section, from
\* an input whose "_meta" record is not the first record
C10_Witness ==
    /\ pc = "done"
    /\ HasMetaRecord
    /\ ~IsMeta(data[1])
    /\ AllRowIdxs # {}
    /\ elements[1].kind = "meta"

(***************************************************************************)
(* The text segmenter, split_korean_english (split_text in the one-file    *)
(* script): re.findall('([가-힣]+|[^가-힣]+)', text).  Characters are code  *)
(* points.                                                                 *)
(***************************************************************************)
MaxText == 3

\* the ends of the range 가-힣
HangulFirst == 44032
HangulLast == 55203

\* characters outside the range that the inputs draw from
Newline == 10
LatinA == 97

Chars == {Newline, LatinA, HangulFirst - 1, HangulFirst, HangulLast,
          HangulLast + 1}

Texts == UNION {[1..n -> Chars] : n \in 0..MaxText}

\* [가-힣]
InHangulClass(c) == c >= HangulFirst /\ c <= HangulLast

\* A class that, like '.', leaves the line break out.
NotHangulNoNewline(c) == ~InHangulClass(c) /\ c # Newline

\* [^가-힣]: a negated class matches every other character, line breaks too
InNegatedClass(c) == ~InHangulClass(c)

\* X+ at pos: the length of the longest run of class members from pos on
RECURSIVE HangulRun(_, _)
HangulRun(txt, pos) ==
    IF pos > Len(txt) \/ ~InHangulClass(txt[pos]) THEN 0
    ELSE 1 + HangulRun(txt, pos + 1)

RECURSIVE NegatedRun(_, _)
NegatedRun(txt, pos) ==
    IF pos > Len(txt) \/ ~InNegatedClass(txt[pos]) THEN 0
    ELSE 1 + NegatedRun(txt, pos + 1)

\* the alternation at pos: the first alternative that matches wins
MatchLen(txt, pos) ==
    IF HangulRun(txt, pos) > 0 THEN HangulRun(txt, pos)
    ELSE NegatedRun(txt, pos)

\* re.findall: scan left to right, collect each match, step over a character
\* at which the pattern does not match
RECURSIVE findall(_, _)
findall(txt, pos) ==
    IF pos > Len(txt) THEN <<>>
    ELSE LET n == MatchLen(txt, pos)
         IN  IF n = 0 THEN findall(txt, pos + 1)
             ELSE <<SubSeq(txt, pos, pos + n - 1)>> \o findall(txt, pos + n)

split_korean_english(txt) == findall(txt, 1)

SplitText ==
    /\ pc = "segment"
    /\ seg_runs' = split_korean_english(seg_text)
    /\ pc' = "segmented"
    /\ UNCHANGED << impl, data, files, cache, elements, grouped_data, teamIdx,
                    table_data, log, response, error, startupVars, output,
                    seg_text, lookup_id, lookup_path >>

InitSeg ==
    /\ impl \in {"pdf_gen", "legacy"}
    /\ data = <<>>
    /\ files = {}
    /\ cache = EmptyCache
    /\ pc = "segment"
    /\ elements = <<>>
    /\ grouped_data = [t \in {} |-> <<>>]
    /\ teamIdx = 0
    /\ table_data = <<>>
    /\ log = <<>>
    /\ response = "none"
    /\ error = NoError
    /\ fontFiles = AllFontFiles
    /\ registered = FontNames
    /\ output = "absent"
    /\ seg_text \in Texts
    /\ seg_runs = <<>>
    /\ lookup_id = <<>>
    /\ lookup_path = <<>>

NextSeg == SplitText

SpecSeg == InitSeg /\ [][NextSeg]_vars

(***************************************************************************)
(* The local lookup of get_image / load_image on its own: ids of one, two, *)
(* three and four segments, and every combination of candidate files.      *)
(***************************************************************************)
IdC == <<"a", "_", "b">>                       \* "a_b"
IdD == <<"a", "_", "b", "_", "c", "_", "d">>   \* "a_b_c_d"

LookupIds == {IdA, IdB, IdC, IdD}

LookupFileSets ==
    SUBSET UNION {Range(path_patterns(id)) : id \in LookupIds}

\* for pattern in path_patterns: if full_path.exists(): return Image.open(...)
LocalLookup ==
    /\ pc = "lookup"
    /\ LET k == LocalMatch(lookup_id, files)
       IN  lookup_path' = IF k = 0 THEN <<>> ELSE path_patterns(lookup_id)[k]
    /\ pc' = "looked"
    /\ UNCHANGED << impl, data, files, cache, elements, grouped_data, teamIdx,
                    table_data, log, response, error, startupVars, output,
                    seg_text, seg_runs, lookup_id >>

InitLookup ==
    /\ impl \in {"pdf_gen", "legacy"}
    /\ data = <<>>
    /\ files \in LookupFileSets
    /\ cache = EmptyCache
    /\ pc = "lookup"
    /\ elements = <<>>
    /\ grouped_data = [t \in {} |-> <<>>]
    /\ teamIdx = 0
    /\ table_data = <<>>
    /\ log = <<>>
    /\ response = "none"
    /\ error = NoError
    /\ fontFiles = AllFontFiles
    /\ registered = FontNames
    /\ output = "absent"
    /\ seg_text = <<>>
    /\ seg_runs = <<>>
    /\ lookup_id \in LookupIds
    /\ lookup_path = <<>>

NextLookup == LocalLookup

SpecLookup == InitLookup /\ [][NextLookup]_vars

(***************************************************************************)
(* C11: a run that ends in a fatal error (missing font file, unreadable    *)
(* input, malformed JSON) never writes the output PDF: no block is built   *)
(* before the fonts are registered and the input is loaded, and the output *)
(* is written only when every block has been assembled.                    *)
(***************************************************************************)
C11_NoOutputOnFatalError ==
    /\ pc = "failed" => output = "absent"
    /\ fontFiles # AllFontFiles => (output = "absent" /\ elements = <<>>)
    /\ (elements # <<>> \/ log # <<>> \/ DOMAIN grouped_data # {}) =>
          (registered = FontNames /\ error.step \notin {"fonts", "load"})
    /\ output = "written" =>
          (pc = "done" /\ registered = FontNames /\ teamIdx > Len(SpecTeams))

\* the input is malformed JSON: the fonts are registered, nothing is written
C11_Witness ==
    /\ pc = "failed"
    /\ error.exc = "JSONDecodeError"
    /\ registered = FontNames
    /\ output = "absent"

\* the runs of a segmentation, put back together in order
RECURSIVE Concat(_)
Concat(parts) ==
    IF parts = <<>> THEN <<>> ELSE Head(parts) \o Concat(Tail(parts))

\* a character of the range 가-힣 (U+AC00 .. U+D7A3)
SpecHangul(c) == c \in 44032..55203

Homogeneous(run) ==
    \/ \A k \in 1..Len(run) : SpecHangul(run[k])
    \/ \A k \in 1..Len(run) : ~SpecHangul(run[k])

(***************************************************************************)
(* C12: the runs returned by the text segmenter concatenate, in order, to  *)
(* exactly the input; every run is non-empty and is either all inside the  *)
(* range 가-힣 or all outside it; the empty string gives the empty         *)
(* sequence.                                                               *)
(***************************************************************************)
C12_SegmentRoundTrip ==
    pc = "segmented" =>
        /\ Concat(seg_runs) = seg_text
        /\ \A i \in 1..Len(seg_runs) :
              Len(seg_runs[i]) > 0 /\ Homogeneous(seg_runs[i])
        /\ seg_text = <<>> => seg_runs = <<>>

\* a text of both scripts with a line break in it, cut into two runs
C12_Witness ==
    /\ pc = "segmented"
    /\ Len(seg_runs) = 2
    /\ \E k \in 1..Len(seg_text) : seg_text[k] = Newline
    /\ \E k \in 1..Len(seg_text) : SpecHangul(seg_text[k])

\* the cache file of the URL that resolution k asked for
EntryOf(k) == cache[_get_cache_path(log[k].url)]

\* what the server sends for each URL: a PNG for U1, a JPEG for U2
SpecBody(url) == IF url = U1 THEN [fmt |-> "png", px |-> "p1"]
                             ELSE [fmt |-> "jpeg", px |-> "p2"]

SpecCandidates(id) ==
    CASE id = <<"k", "_", "K", "_", "i">> ->
            << <<"icons/Icon_", "k", "_", "K", "_", "i", ".png">>,
               <<"icons/Icon_", "i", ".png">>,
               <<"icons/Icon_", "i", ".png">> >>
      [] id = <<"i">> ->
            << <<"icons/Icon_", "i", ".png">>,
               <<"icons/Icon_", ".png">>,
               <<"icons/Icon_", "i", ".png">> >>
      [] id = <<"a", "_", "b">> ->
            << <<"icons/Icon_", "a", "_", "b", ".png">>,
               <<"icons/Icon_", ".png">>,
               <<"icons/Icon_", "b", ".png">> >>
      [] id = <<"a", "_", "b", "_", "c", "_", "d">> ->
            << <<"icons/Icon_", "a", "_", "b", "_", "c", "_", "d", ".png">>,
               <<"icons/Icon_", "c", "_", "d", ".png">>,
               <<"icons/Icon_", "d", ".png">> >>

(***************************************************************************)
(* C14: the local lookup tries Icon_<id>.png, then Icon_<id without its    *)
(* first two segments>.png, then Icon_<last segment>.png, and opens the    *)
(* first that exists: a later candidate only when every earlier one is     *)
(* missing, and nothing when all three are; for ids of any number of       *)
(* segments.                                                               *)
(***************************************************************************)
C14_LookupOrder ==
    pc = "looked" =>
        LET cands == SpecCandidates(lookup_id)
        IN  /\ (\A k \in 1..3 : cands[k] \notin files) <=> lookup_path = <<>>
            /\ \A k \in 1..3 :
                  (cands[k] \in files /\ \A j \in 1..(k - 1) : cands[j] \notin files)
                      => lookup_path = cands[k]

\* a two-segment id whose exact icon is missing: the second candidate,
\* Icon_.png, exists and is opened although the third exists as well
C14_Witness ==
    /\ pc = "looked"
    /\ lookup_id = <<"a", "_", "b">>
    /\ <<"icons/Icon_", "a", "_", "b", ".png">> \notin files
    /\ <<"icons/Icon_", "b", ".png">> \in files
    /\ lookup_path = <<"icons/Icon_", ".png">>

\* the cache as resolution k left it
CacheAfter(k) == IF k = Len(log) THEN cache ELSE log[k + 1].before

\* resolution k downloaded the image: the GET succeeded and the body decoded
Downloaded(k) ==
    log[k].net /\ log[k].result = "image" /\ log[k].src = "net"

(***************************************************************************)
(* C15: the cache is write-once.  A resolution adds at most the entry of   *)
(* its own URL, only when that key had no entry and the download           *)
(* succeeded; entries that exist are never changed or removed; a failed    *)
(* fetch, an empty or missing URL and a local hit leave the cache as it    *)
(* was.                                                                    *)
(***************************************************************************)
C15_CacheWriteOnce ==
    \A k \in 1..Len(log) :
        LET b == log[k].before
            a == CacheAfter(k)
        IN  /\ DOMAIN b \subseteq DOMAIN a
            /\ \A p \in DOMAIN b : a[p] = b[p]
            /\ \A p \in DOMAIN a \ DOMAIN b :
                  /\ p = <<".cache/", "md5", log[k].url, ".png">>
                  /\ Downloaded(k)
            /\ ~Downloaded(k) => a = b
            /\ log[k].src \in {"local", "nourl", "cache", "noid"} => a = b

\* one run in which a fetch failed, a download filled an empty key and a
\* later role was served the entry: the cache changed once
C15_Witness ==
    /\ Len(log) = 3
    /\ log[1].net /\ log[1].result = "absent"
    /\ log[2].wrote /\ DOMAIN log[2].before = {}
    /\ log[3].src = "cache"
    /\ log[3].before = cache

\* the number of rows of the tables among the first k blocks
RECURSIVE RowCount(_)
RowCount(k) ==
    IF k = 0 THEN 0
    ELSE RowCount(k - 1)
            + (IF elements[k].kind = "table" THEN Len(elements[k].rows) ELSE 0)

ValidRecords == {i \in Positions : ValidTeamRecord(i)}

\* the tables that have a row for record i
TablesWith(i) == {k \in Blocks("table") : i \in RowIdxs(elements[k].rows)}

(***************************************************************************)
(* C16: conservation of records.  No table has two rows for one record, no *)
(* record has rows in two tables, and every row stands for a non-null      *)
(* record of a valid team in the table of that team; in the finished       *)
(* sequence every such record has its row, so the number of table rows is  *)
(* the number of valid-team records of the input.                          *)
(***************************************************************************)
C16_RecordsConserved ==
    /\ \A rows \in AllTables :
          \A j, k \in 1..Len(rows) : j # k => rows[j].idx # rows[k].idx
    /\ \A i \in AllRowIdxs :
          /\ ValidTeamRecord(i)
          /\ Cardinality(TablesWith(i)) + (IF i \in RowIdxs(table_data) THEN 1 ELSE 0) = 1
          /\ TablesWith(i) \subseteq TablePos(data[i].team)
          /\ i \in RowIdxs(table_data) =>
                /\ elements[Len(elements)].kind = "header"
                /\ elements[Len(elements)].team = data[i].team
    /\ pc = "done" =>
          /\ \A i \in ValidRecords : Cardinality(TablesWith(i)) = 1
          /\ RowCount(Len(elements)) = Cardinality(ValidRecords)

\* a finished sequence from an input that mixes a null record, a record of
\* no valid team and two valid records of different teams: two rows
C16_Witness ==
    /\ pc = "done"
    /\ \E i \in Positions : data[i].null \/ ~ValidTeamRecord(i)
    /\ Cardinality(ValidRecords) = 2
    /\ Cardinality({k \in Blocks("table") : elements[k].rows # <<>>}) = 2
    /\ RowCount(Len(elements)) = 2

====
